---- MODULE Spec2Model ----
(***************************************************************************)
(* The aggregated search pipeline of src/search_service.py:                *)
(* SearchService.search_news, search_web, search_academic and              *)
(* unified_search, with the configuration value NEWSAPI_KEY of             *)
(* src/config.py and the SearchResult schema of src/schemas.py.            *)
(*                                                                         *)
(* Python values are encoded as follows.  Strings are strings.  None is    *)
(* the string Null, a dictionary key that is not present is the string     *)
(* Absent.  The float relevance_score is counted in tenths (0.8 is 8).     *)
(***************************************************************************)
EXTENDS Integers, Sequences, FiniteSets

VARIABLES
    NEWSAPI_KEY,       \* settings.NEWSAPI_KEY, read-only configuration
    patched,           \* canned returns of fetchers replaced by test doubles
    pc,                \* position of the one call in flight
    fn,                \* entry point of the call in flight
    query,             \* argument query
    sources,           \* argument sources (None or a list of names)
    limit,             \* argument limit
    calls,             \* fetcher invocations made by the call, in order
    requests,          \* outbound HTTP requests issued by the call, in order
    response,          \* what came back for the request
    news_results,      \* unified_search's local news_results
    web_results,       \* unified_search's local web_results
    academic_results,  \* unified_search's local academic_results
    pool,              \* all_results just before line 82 sorts it
    all_results,       \* all_results after the in-place sort
    ret,               \* the value returned to the caller
    raised             \* TRUE when the call ended by raising to its caller

vars == <<NEWSAPI_KEY, patched, pc, fn, query, sources, limit, calls, requests,
          response, news_results, web_results, academic_results, pool,
          all_results, ret, raised>>

----------------------------------------------------------------------------
(* Bounds and program constants *)

MaxArticles == 3   \* longest article list of a provider response, longest canned news list
MaxLimit == 2      \* limits range over -1 .. MaxLimit, and the default of search_news

NewsScore == 8             \* relevance_score=0.8
NewsDefaultLimit == 5      \* search_news(query, limit=5)
HTTP_OK == 200             \* response.status_code == 200

Null == "<None>"
Absent == "<absent>"

Min(a, b) == IF a <= b THEN a ELSE b
Max(a, b) == IF a >= b THEN a ELSE b
Range(s) == {s[i] : i \in 1..Len(s)}

RECURSIVE SeqsUpTo(_, _)
SeqsUpTo(S, n) ==
    IF n = 0 THEN {<<>>}
    ELSE LET shorter == SeqsUpTo(S, n - 1)
         IN  shorter \cup {Append(s, x) : s \in {t \in shorter : Len(t) = n - 1}, x \in S}

----------------------------------------------------------------------------
(* Inputs *)

Providers == <<"news", "web", "academic">>
NoneSources == <<Null>>                      \* the argument value None
DefaultSources == <<"news", "web", "academic">>
SchemaDefaultSources == <<"academic", "news", "web">>

SourceLists ==
    { NoneSources, DefaultSources, SchemaDefaultSources,
      <<>>, <<"news">>, <<"web">>, <<"academic">>, <<"bogus">>,
      <<"news", "bogus">>, <<"bogus", "news">>, <<"web", "news">>,
      <<"news", "news">>, <<"web", "academic">>, <<"academic", "bogus">> }

Queries == {"climate", "trending"}
Limits == ((-1)..MaxLimit) \cup {NewsDefaultLimit}
Keys == {"", "k"}

----------------------------------------------------------------------------
(* SearchResult, and the canned results of test doubles *)

SearchResult(title, url, source, snippet, score, published_date, author) ==
    [title |-> title, url |-> url, source |-> source, snippet |-> snippet,
     relevance_score |-> score, published_date |-> published_date,
     author |-> author, citations |-> Null]

Canned(title, score) == SearchResult(title, "u", "Outlet", "d", score, Null, Null)

CannedNews == {Canned("A", NewsScore), Canned("B", NewsScore), Canned("C", NewsScore)}
CannedWeb == {<<>>, <<Canned("W9", 9)>>, <<Canned("W5", 5)>>,
              <<Canned("W5", 5), Canned("W9", 9)>>}
CannedAcademic == {<<>>, <<Canned("S8", NewsScore)>>, <<Canned("S9", 9)>>}

NotPatched == [on |-> FALSE, news |-> <<>>, web |-> <<>>, academic |-> <<>>]

----------------------------------------------------------------------------
(* The provider's response *)

Article(title) ==
    [obj |-> TRUE, title |-> title, url |-> "u", source |-> "obj", name |-> "Outlet",
     description |-> "d", publishedAt |-> "2024-01-01", author |-> "x"]

SparseArticle ==
    [obj |-> TRUE, title |-> "C", url |-> Absent, source |-> Absent, name |-> Absent,
     description |-> Absent, publishedAt |-> Absent, author |-> Absent]

NotAnObject ==
    [obj |-> FALSE, title |-> Absent, url |-> Absent, source |-> Absent, name |-> Absent,
     description |-> Absent, publishedAt |-> Absent, author |-> Absent]

NullDescription == [Article("D") EXCEPT !.description = Null]
NullSource == [Article("E") EXCEPT !.source = Null, !.name = Absent]

Entries == {Article("A"), Article("B"), SparseArticle, NotAnObject, NullDescription, NullSource}

NoResponse == [exc |-> "", status |-> 0, body |-> "", articles |-> <<>>]

TransportErrors == {"ConnectError", "ReadTimeout"}

Responses ==
    {[exc |-> e, status |-> 0, body |-> "", articles |-> <<>>] : e \in TransportErrors}
    \cup {[exc |-> "", status |-> s, body |-> "", articles |-> <<>>] : s \in {204, 401, 500}}
    \cup {[exc |-> "", status |-> HTTP_OK, body |-> b, articles |-> <<>>] :
             b \in {"not_json", "json_list", "no_articles", "articles_null"}}
    \cup {[exc |-> "", status |-> HTTP_OK, body |-> "articles", articles |-> a] :
             a \in SeqsUpTo(Entries, MaxArticles)}

----------------------------------------------------------------------------
(* search_news, lines 29-47 *)

Get(v, default) == IF v = Absent THEN default ELSE v
GetOpt(v) == IF v = Absent THEN Null ELSE v

\* The exception that building the SearchResult of one entry raises, "" if none.
EntryError(a) ==
    IF ~a.obj THEN "AttributeError"
    ELSE IF a.source = Null THEN "AttributeError"
    ELSE IF Null \in {Get(a.title, ""), Get(a.url, ""),
                      IF a.source = Absent THEN "News" ELSE Get(a.name, "News"),
                      Get(a.description, "")}
         THEN "ValidationError"
    ELSE ""

MapArticle(a) ==
    SearchResult(Get(a.title, ""), Get(a.url, ""),
                 IF a.source = Absent THEN "News" ELSE Get(a.name, "News"),
                 Get(a.description, ""), NewsScore,
                 GetOpt(a.publishedAt), GetOpt(a.author))

\* The for loop of lines 32-42: every entry of the list is appended, and the
\* first entry that raises ends the loop with its exception.
RECURSIVE MapArticles(_)
MapArticles(as) ==
    IF as = <<>> THEN [exc |-> "", results |-> <<>>]
    ELSE IF EntryError(Head(as)) # "" THEN [exc |-> EntryError(Head(as)), results |-> <<>>]
    ELSE LET rest == MapArticles(Tail(as))
         IN  IF rest.exc # "" THEN rest
             ELSE [exc |-> "", results |-> <<MapArticle(Head(as))>> \o rest.results]

\* The body of the try block, lines 17-43: what it returns or raises.
\* returned is FALSE when the block ends without a return statement.
TryBlock(r) ==
    IF r.exc # "" THEN [exc |-> r.exc, returned |-> FALSE, results |-> <<>>]
    ELSE IF r.status # HTTP_OK THEN [exc |-> "", returned |-> FALSE, results |-> <<>>]
    ELSE IF r.body = "not_json" THEN [exc |-> "JSONDecodeError", returned |-> FALSE, results |-> <<>>]
    ELSE IF r.body = "json_list" THEN [exc |-> "AttributeError", returned |-> FALSE, results |-> <<>>]
    ELSE IF r.body = "articles_null" THEN [exc |-> "TypeError", returned |-> FALSE, results |-> <<>>]
    ELSE IF r.body = "no_articles" THEN [exc |-> "", returned |-> TRUE, results |-> <<>>]
    ELSE LET m == MapArticles(r.articles)
         IN  [exc |-> m.exc, returned |-> m.exc = "", results |-> m.results]

\* except Exception, line 44: every exception class above derives from Exception.
CatchesTransportOnly(exc) == exc \in TransportErrors
Catches(exc) == TRUE

\* if not settings.NEWSAPI_KEY, line 13
KeyIsNone(key) == key = Null
KeyMissing(key) == key = ""

\* What search_news gives its caller once the response is in, lines 29-47.
SearchNewsOutcome(r) ==
    LET t == TryBlock(r)
    IN  IF t.exc # "" /\ ~Catches(t.exc) THEN [raised |-> TRUE, results |-> <<>>]
        ELSE IF t.exc = "" /\ t.returned THEN [raised |-> FALSE, results |-> t.results]
        ELSE [raised |-> FALSE, results |-> <<>>]

----------------------------------------------------------------------------
(* unified_search, lines 64-83 *)

\* sources = ["news", "web", "academic"] when sources is None, lines 64-65
EffectiveSources(s) == IF s = NoneSources THEN DefaultSources ELSE s

\* name in sources
ContainsOrUnknown(name, s) ==
    \E i \in 1..Len(s) : s[i] = name \/ (name = "news" /\ s[i] \notin Range(Providers))
Contains(name, s) == \E i \in 1..Len(s) : s[i] = name

Call(fetcher, q, l) == [fetcher |-> fetcher, query |-> q, limit |-> l]

\* all_results after lines 67-79, given what each invoked fetcher returned
PoolOfAll(s, nr, wr, ar) == nr \o wr \o ar
RECURSIVE PoolInSourceOrder(_, _, _, _)
PoolInSourceOrder(s, nr, wr, ar) ==
    IF s = <<>> THEN <<>>
    ELSE (IF Head(s) = "news" THEN nr
          ELSE IF Head(s) = "web" THEN wr
          ELSE IF Head(s) = "academic" THEN ar
          ELSE <<>>)
         \o PoolInSourceOrder(Tail(s), nr, wr, ar)
PoolOf(s, nr, wr, ar) ==
    (IF Contains("news", s) THEN nr ELSE <<>>)
    \o (IF Contains("web", s) THEN wr ELSE <<>>)
    \o (IF Contains("academic", s) THEN ar ELSE <<>>)

\* list.sort(key=relevance_score, reverse=True), line 82: a stable sort, so
\* an element goes after every element whose score is greater or equal.
InsertBefore(s, x) ==
    LET n == Cardinality({i \in 1..Len(s) : s[i].relevance_score > x.relevance_score})
    IN  SubSeq(s, 1, n) \o <<x>> \o SubSeq(s, n + 1, Len(s))
InsertAscending(s, x) ==
    LET n == Cardinality({i \in 1..Len(s) : s[i].relevance_score <= x.relevance_score})
    IN  SubSeq(s, 1, n) \o <<x>> \o SubSeq(s, n + 1, Len(s))
InsertDescending(s, x) ==
    LET n == Cardinality({i \in 1..Len(s) : s[i].relevance_score >= x.relevance_score})
    IN  SubSeq(s, 1, n) \o <<x>> \o SubSeq(s, n + 1, Len(s))

RECURSIVE SortByRelevance(_)
SortByRelevance(s) ==
    IF s = <<>> THEN <<>>
    ELSE InsertDescending(SortByRelevance(SubSeq(s, 1, Len(s) - 1)), s[Len(s)])

\* all_results[:limit], line 83
SliceOneMore(s, n) ==
    IF n >= 0 THEN SubSeq(s, 1, Min(n + 1, Len(s)))
    ELSE SubSeq(s, 1, Max(0, Len(s) + n + 1))
Slice(s, n) ==
    IF n >= 0 THEN SubSeq(s, 1, Min(n, Len(s)))
    ELSE SubSeq(s, 1, Max(0, Len(s) + n))

\* The fetchers lines 69-79 invoke after search_news has returned.
LaterCalls(q, s, l) ==
    (IF Contains("web", s) THEN <<Call("web", q, l)>> ELSE <<>>)
    \o (IF Contains("academic", s) THEN <<Call("academic", q, l)>> ELSE <<>>)

\* search_web and search_academic, lines 49-59
search_web(q, l) == IF patched.on THEN patched.web ELSE <<>>
search_academic(q, l) == IF patched.on THEN patched.academic ELSE <<>>

----------------------------------------------------------------------------
(* The state machine: one call at a time, from the call to its return *)

Init ==
    /\ NEWSAPI_KEY \in Keys
    /\ patched = NotPatched
    /\ pc = "idle"
    /\ fn = ""
    /\ query = ""
    /\ sources = <<>>
    /\ limit = 0
    /\ calls = <<>>
    /\ requests = <<>>
    /\ response = NoResponse
    /\ news_results = <<>>
    /\ web_results = <<>>
    /\ academic_results = <<>>
    /\ pool = <<>>
    /\ all_results = <<>>
    /\ ret = <<>>
    /\ raised = FALSE

\* client.get(...), lines 17-27: the request leaves and the coroutine waits.
SendRequest(q, l) ==
    /\ requests' = Append(requests, [q |-> q, pageSize |-> l, apiKey |-> NEWSAPI_KEY])
    /\ pc' = "await_http"

\* Lines 71-83 of unified_search, from the return of search_news on: nr is
\* what search_news returned (empty when it was not invoked), made the
\* fetcher invocations so far.
Aggregate(q, s, l, nr, made) ==
    LET wr == search_web(q, l)
        ar == search_academic(q, l)
        p  == PoolOf(s, nr, wr, ar)
    IN  /\ calls' = made \o LaterCalls(q, s, l)
        /\ news_results' = nr
        /\ web_results' = IF Contains("web", s) THEN wr ELSE <<>>
        /\ academic_results' = IF Contains("academic", s) THEN ar ELSE <<>>
        /\ pool' = p
        /\ all_results' = SortByRelevance(p)
        /\ ret' = Slice(SortByRelevance(p), l)
        /\ raised' = FALSE
        /\ pc' = "done"

\* unified_search(query, sources, limit) is called, lines 62-83.  It runs to
\* its return unless search_news has to wait for the provider.
UnifiedSearch(q, s, l) ==
    /\ pc = "idle"
    /\ fn' = "unified_search"
    /\ query' = q
    /\ sources' = s
    /\ limit' = l
    /\ LET e == EffectiveSources(s)
       IN  IF ~Contains("news", e)
             THEN Aggregate(q, e, l, <<>>, <<>>) /\ UNCHANGED requests
           ELSE IF patched.on
             THEN Aggregate(q, e, l, patched.news, <<Call("news", q, l)>>)
                  /\ UNCHANGED requests
           ELSE IF KeyMissing(NEWSAPI_KEY)
             THEN Aggregate(q, e, l, <<>>, <<Call("news", q, l)>>) /\ UNCHANGED requests
           ELSE /\ SendRequest(q, l)
                /\ calls' = <<Call("news", q, l)>>
                /\ UNCHANGED <<news_results, web_results, academic_results, pool,
                               all_results, ret, raised>>
    /\ UNCHANGED <<NEWSAPI_KEY, patched, response>>

\* search_news(query, limit) is called by an endpoint of src/main.py.
SearchNews(q, l) ==
    /\ pc = "idle"
    /\ fn' = "search_news"
    /\ query' = q
    /\ limit' = l
    /\ calls' = <<Call("news", q, l)>>
    /\ IF KeyMissing(NEWSAPI_KEY)
         THEN /\ ret' = <<>>
              /\ pc' = "done"
              /\ UNCHANGED requests
         ELSE /\ SendRequest(q, l)
              /\ UNCHANGED ret
    /\ UNCHANGED <<NEWSAPI_KEY, patched, sources, response, news_results, web_results,
                   academic_results, pool, all_results, raised>>

\* The rest of the call once the request has ended with r, lines 29-47 of
\* search_news and, under unified_search, lines 71-83.
Complete(r) ==
    /\ response' = r
    /\ LET out == SearchNewsOutcome(r)
       IN  IF out.raised
             THEN /\ raised' = TRUE
                  /\ pc' = "done"
                  /\ UNCHANGED <<calls, news_results, web_results, academic_results,
                                 pool, all_results, ret>>
           ELSE IF fn = "search_news"
             THEN /\ ret' = out.results
                  /\ pc' = "done"
                  /\ UNCHANGED <<calls, news_results, web_results, academic_results,
                                 pool, all_results, raised>>
           ELSE Aggregate(query, EffectiveSources(sources), limit, out.results, calls)
    /\ UNCHANGED <<NEWSAPI_KEY, patched, fn, query, sources, limit, requests>>

Failed(r) == r.exc # "" \/ r.status # HTTP_OK

HttpRespondRetry(r) ==
    /\ pc = "await_http"
    /\ IF Failed(r) /\ Len(requests) < 2
         THEN /\ response' = r
              /\ SendRequest(query, limit)
              /\ UNCHANGED <<NEWSAPI_KEY, patched, fn, query, sources, limit, calls,
                             news_results, web_results, academic_results, pool,
                             all_results, ret, raised>>
         ELSE Complete(r)

\* The awaited client.get ends: it raises a transport error or hands over the
\* provider's response, and the coroutine runs on to its return.
HttpRespond(r) ==
    /\ pc = "await_http"
    /\ Complete(r)

\* The caller has the result; the next call starts from fresh locals.
Return ==
    /\ pc = "done"
    /\ pc' = "idle"
    /\ fn' = ""
    /\ query' = ""
    /\ sources' = <<>>
    /\ limit' = 0
    /\ calls' = <<>>
    /\ requests' = <<>>
    /\ response' = NoResponse
    /\ news_results' = <<>>
    /\ web_results' = <<>>
    /\ academic_results' = <<>>
    /\ pool' = <<>>
    /\ all_results' = <<>>
    /\ ret' = <<>>
    /\ raised' = FALSE
    /\ UNCHANGED <<NEWSAPI_KEY, patched>>

Next ==
    \/ \E q \in Queries, s \in SourceLists, l \in Limits : UnifiedSearch(q, s, l)
    \/ \E q \in Queries, l \in Limits : SearchNews(q, l)
    \/ \E r \in Responses : HttpRespond(r)
    \/ Return

Spec == Init /\ [][Next]_vars

\* unified_search with the three fetchers replaced by test doubles that
\* return canned results.
InitMock ==
    /\ NEWSAPI_KEY = ""
    /\ patched \in [on : {TRUE}, news : SeqsUpTo(CannedNews, MaxArticles),
                    web : CannedWeb, academic : CannedAcademic]
    /\ pc = "idle"
    /\ fn = ""
    /\ query = ""
    /\ sources = <<>>
    /\ limit = 0
    /\ calls = <<>>
    /\ requests = <<>>
    /\ response = NoResponse
    /\ news_results = <<>>
    /\ web_results = <<>>
    /\ academic_results = <<>>
    /\ pool = <<>>
    /\ all_results = <<>>
    /\ ret = <<>>
    /\ raised = FALSE

NextMock ==
    \/ \E q \in Queries, s \in SourceLists, l \in Limits : UnifiedSearch(q, s, l)
    \/ Return

SpecMock == InitMock /\ [][NextMock]_vars

----------------------------------------------------------------------------
(* Properties *)

Done == pc = "done"
UnifiedDone == pc = "done" /\ fn = "unified_search" /\ ~raised

\* The provider names the caller asked for: all three when sources is None.
Requested == IF sources = NoneSources THEN {"news", "web", "academic"} ELSE Range(sources)

\* C1: the sequence unified_search returns is ordered by relevance_score,
\* non-increasing: no returned result is followed, anywhere later in the
\* sequence, by a result with a strictly higher relevance_score.
C1_SortedDescending ==
    UnifiedDone =>
        \A i, j \in 1..Len(ret) :
            i < j => ~(ret[j].relevance_score > ret[i].relevance_score)

\* The pool held a lower score before a higher one, and both were returned.
C1_Witness ==
    /\ UnifiedDone
    /\ Len(ret) >= 2
    /\ ret[1].relevance_score > ret[Len(ret)].relevance_score
    /\ \E i, j \in 1..Len(pool) :
          i < j /\ pool[i].relevance_score < pool[j].relevance_score

WithScore(s, v) == SelectSeq(s, LAMBDA x : x.relevance_score = v)

RECURSIVE IsSubsequence(_, _)
IsSubsequence(a, b) ==
    IF a = <<>> THEN TRUE
    ELSE IF b = <<>> THEN FALSE
    ELSE IF Head(a) = Head(b) THEN IsSubsequence(Tail(a), Tail(b))
    ELSE IsSubsequence(a, Tail(b))

ScenarioABC ==
    /\ patched.news = <<Canned("A", NewsScore), Canned("B", NewsScore), Canned("C", NewsScore)>>
    /\ patched.web = <<>>
    /\ patched.academic = <<>>
    /\ \A p \in Range(Providers) : Contains(p, sources)
    /\ limit = 2

\* C2: unified_search is stable on ties: the returned results of one
\* relevance_score stand in the order they had in the pre-sort pool; and with
\* news yielding [A, B, C], all scored 0.8, web and academic yielding nothing
\* and limit 2, the call returns exactly [A, B].
C2_StableOnTies ==
    UnifiedDone =>
        /\ \A v \in {pool[i].relevance_score : i \in 1..Len(pool)} :
              IsSubsequence(WithScore(ret, v), WithScore(pool, v))
        /\ ScenarioABC =>
              ret = <<Canned("A", NewsScore), Canned("B", NewsScore)>>

\* The scenario has run.
C2_Witness ==
    /\ UnifiedDone
    /\ ScenarioABC
    /\ sources = DefaultSources
    /\ query = "climate"
    /\ ret = <<Canned("A", NewsScore), Canned("B", NewsScore)>>

\* C3: for a limit N >= 0 unified_search returns at most N results, and they
\* are the first min(N, |pool|) entries of the sorted pool.
C3_Truncation ==
    (UnifiedDone /\ limit >= 0) =>
        /\ Len(ret) <= limit
        /\ Len(all_results) = Len(pool)
        /\ ret = SubSeq(all_results, 1, Min(limit, Len(pool)))

\* The pool was larger than a positive limit.
C3_Witness ==
    /\ UnifiedDone
    /\ limit > 0
    /\ Len(pool) > limit
    /\ Len(ret) = limit

NewsInvoked == \E i \in 1..Len(calls) : calls[i].fetcher = "news"

\* The failures of search_news: no credential, a transport error, a status
\* other than 200, a body that is not a JSON object with an articles list.
NewsFailed ==
    /\ NewsInvoked
    /\ \/ requests = <<>> /\ NEWSAPI_KEY = ""
       \/ response.exc \in TransportErrors
       \/ response # NoResponse /\ response.exc = "" /\ response.status # HTTP_OK
       \/ response.status = HTTP_OK
             /\ response.body \in {"not_json", "json_list", "no_articles", "articles_null"}

\* C4: search_news never raises to its caller; after each of its failures
\* it has returned the empty sequence, and unified_search has gone on to the
\* other requested fetchers and returned, without raising, what they gave.
C4_FailOpen ==
    Done =>
        /\ ~raised
        /\ NewsFailed =>
              /\ fn = "search_news" => ret = <<>>
              /\ fn = "unified_search" =>
                    /\ news_results = <<>>
                    /\ \A p \in {"web", "academic"} :
                          p \in Requested =>
                              \E i \in 1..Len(calls) : calls[i].fetcher = p
                    /\ ret = Slice(SortByRelevance(web_results \o academic_results), limit)

\* A body that is not JSON came back to a call that also asked for web.
C4_Witness ==
    /\ Done
    /\ fn = "unified_search"
    /\ NewsFailed
    /\ response.body = "not_json"
    /\ Contains("web", sources)
    /\ Len(calls) = 2

\* C5: with the news credential unset or empty no outbound request is ever
\* issued, search_news returns the empty sequence, and unified_search with
\* sources ["news"] returns the empty sequence without raising.
C5_NoCredential ==
    NEWSAPI_KEY = "" =>
        /\ requests = <<>>
        /\ pc # "await_http"
        /\ (Done /\ fn = "search_news") => ret = <<>> /\ ~raised
        /\ (Done /\ fn = "unified_search" /\ sources = <<"news">>) => ret = <<>> /\ ~raised

\* unified_search(q, ["news"], limit=5) has returned with no credential set.
C5_Witness ==
    /\ NEWSAPI_KEY = ""
    /\ Done
    /\ fn = "unified_search"
    /\ sources = <<"news">>
    /\ limit = NewsDefaultLimit
    /\ NewsInvoked
    /\ ret = <<>>

\* C6: search_news(query, limit) returns at most limit results, whatever
\* the provider's response holds.
C6_AtMostLimit ==
    (Done /\ NewsInvoked /\ limit >= 1) =>
        /\ fn = "search_news" => Len(ret) <= limit
        /\ fn = "unified_search" => Len(news_results) <= limit

\* The results of the entries of as that can be parsed, in their order.
RECURSIVE SkipMalformed(_)
SkipMalformed(as) ==
    IF as = <<>> THEN <<>>
    ELSE IF EntryError(Head(as)) # "" THEN SkipMalformed(Tail(as))
    ELSE <<MapArticle(Head(as))>> \o SkipMalformed(Tail(as))

\* C7: on a successful response search_news skips each malformed entry and
\* returns the results of the well-formed entries; its result is empty only
\* when no entry can be parsed.
C7_SkipsMalformed ==
    (Done /\ fn = "search_news" /\ limit >= 1
          /\ response.status = HTTP_OK /\ response.body = "articles") =>
        /\ ~raised
        /\ ret = SkipMalformed(response.articles)

\* sources with every name that is no provider removed
KnownOnly(s) == SelectSeq(s, LAMBDA n : n \in Range(Providers))

\* The invocations a call with sources s is to make: the providers named in
\* s, each once, with the caller's query and limit.
InvocationsFor(s) ==
    LET named == SelectSeq(Providers, LAMBDA p : p \in Range(s))
    IN  [i \in 1..Len(named) |-> Call(named[i], query, limit)]

\* C8: names outside {news, web, academic} are ignored: no fetcher is
\* invoked for them, nothing is raised, and the fetchers invoked and the
\* sequence returned are those of the call with these names removed.
C8_UnknownIgnored ==
    (Done /\ fn = "unified_search") =>
        LET k == IF sources = NoneSources THEN DefaultSources ELSE KnownOnly(sources)
        IN  /\ ~raised
            /\ \A i \in 1..Len(calls) : calls[i].fetcher \in Requested \cap Range(Providers)
            /\ calls = InvocationsFor(k)
            /\ ret = Slice(SortByRelevance(PoolOf(k, patched.news, patched.web,
                                                  patched.academic)), limit)

\* ["news", "bogus"] was searched and news had results to give.
C8_Witness ==
    /\ UnifiedDone
    /\ sources = <<"news", "bogus">>
    /\ patched.news # <<>>
    /\ ret # <<>>
    /\ Len(calls) = 1

\* C9: unified_search invokes exactly the fetchers named in sources (all
\* three when sources is None), each once, each with the caller's query and
\* limit; a fetcher not named is not invoked and none of its results is
\* returned.
C9_ExactFetchers ==
    (Done /\ fn = "unified_search") =>
        LET s == Requested
        IN  /\ \A p \in Range(Providers) :
                  Cardinality({i \in 1..Len(calls) : calls[i].fetcher = p})
                      = IF p \in s THEN 1 ELSE 0
            /\ \A i \in 1..Len(calls) :
                  /\ calls[i].fetcher \in Range(Providers)
                  /\ calls[i].query = query
                  /\ calls[i].limit = limit
            /\ \A p \in Range(Providers) \ s :
                  \A i \in 1..Len(ret) : ret[i] \notin Range(patched[p])

\* Only news was asked for while web and academic had results to give.
C9_Witness ==
    /\ UnifiedDone
    /\ sources = <<"news">>
    /\ limit = NewsDefaultLimit
    /\ patched.web # <<>>
    /\ patched.academic # <<>>
    /\ Len(ret) = MaxArticles
    /\ calls = <<Call("news", query, limit)>>

\* C10: no retry: a call issues at most one request to the news provider,
\* and a call whose request failed has returned with that one request only.
C10_NoRetry ==
    /\ Len(requests) <= 1
    /\ (Done /\ response # NoResponse) => Len(requests) = 1
    /\ pc = "await_http" => Len(requests) = 1

\* The request of a unified_search ended in a transport error.
C10_Witness ==
    /\ Done
    /\ fn = "unified_search"
    /\ response.exc = "ConnectError"
    /\ Len(requests) = 1
    /\ ret = <<>>

\* The requested providers, each once, in the order news, web, academic
Canonical == SelectSeq(Providers, LAMBDA p : p \in Requested)

\* C11: the pool is concatenated in the fixed order news, web, academic, and
\* the call depends only on which of the three names sources holds: the
\* fetchers invoked, how often, and the sequence returned are those of the
\* call whose sources lists the same names once each in the fixed order.
C11_MembershipOnly ==
    (Done /\ fn = "unified_search") =>
        /\ news_results = IF "news" \in Requested THEN patched.news ELSE <<>>
        /\ web_results = IF "web" \in Requested THEN patched.web ELSE <<>>
        /\ academic_results = IF "academic" \in Requested THEN patched.academic ELSE <<>>
        /\ pool = news_results \o web_results \o academic_results
        /\ calls = InvocationsFor(Canonical)
        /\ ret = Slice(SortByRelevance(PoolOf(Canonical, patched.news, patched.web,
                                              patched.academic)), limit)

\* sources named academic first, and a news result was returned ahead of
\* the academic result it ties with.
C11_Witness ==
    /\ UnifiedDone
    /\ sources = SchemaDefaultSources
    /\ patched.academic = <<Canned("S8", NewsScore)>>
    /\ patched.news = <<Canned("A", NewsScore)>>
    /\ ret = <<Canned("A", NewsScore), Canned("S8", NewsScore)>>
    /\ Len(calls) = 3
    /\ calls[1].fetcher = "news"

====
